---- MODULE Spec2Model ----
(***************************************************************************)
(* Model of the fixed-capacity memory pool mp::allocator<TAlloc, NAlloc>   *)
(* and its slot bitmap mp::slot_status_registry<N>                         *)
(* (include/memory_pool/allocator.hpp, slot_status_registry.hpp).          *)
(*                                                                         *)
(* One registry / allocator object is modelled per capacity, so the        *)
(* function-local statics `end` of fetch() and reset() are the ones        *)
(* initialised from this object's own data_.                               *)
(***************************************************************************)
EXTENDS Integers, Sequences, FiniteSets, Bags

\* ------------------------------------------------------------------------
\* Bounds of the model
\* ------------------------------------------------------------------------
\* capacities N = 1 .. MaxN are explored (template parameter N / NAlloc)
MaxN == 3
\* fetch(qty) is called with qty in 1 .. N + ExtraQty
ExtraQty == 1
\* initialize() reserves at most MaxBlocks storage blocks in one run
MaxBlocks == 2
\* threads that poll is_initialized() while another thread runs initialize()
NReaders == 3
\* calls each of two threads makes on a registry they share
MaxCalls == 2

\* ------------------------------------------------------------------------
\* Compile-time constants of slot_status_registry<N>
\* ------------------------------------------------------------------------
\* sizeof(unsigned int) * CHAR_BIT
bits_per_int_ == 32

data_size_(n) == (n + bits_per_int_ - 1) \div bits_per_int_

min(a, b) == IF a < b THEN a ELSE b

max_index_(n) == min(data_size_(n), n)

\* ------------------------------------------------------------------------
\* Error codes (error::code_e) as used by the registry and the allocator
\* ------------------------------------------------------------------------
ok == "ok"
not_enough_space_in_allocator == "not_enough_space_in_allocator"
bad_logic == "bad_logic"
not_initialized == "not_initialized"
already_initialized == "already_initialized"
cannot_reserve_system_memory == "cannot_reserve_system_memory"
exception_caught_in_ctor == "exception_caught_in_ctor"
exception_caught_in_dctor == "exception_caught_in_dctor"
out_of_bounds == "out_of_bounds"

VARIABLES
    N,            \* capacity of this instantiation (N / NAlloc)
    registry_,    \* [data_ : word index -> unsigned int, in_use_ : atomic_uint]
    initialized_, \* allocator::initialized_
    storage_,     \* allocator::storage_ : 0 is nullptr, b > 0 the b-th reserved block
    mem,          \* content of the N slots of the block storage_ points to
    nblocks,      \* number of blocks std::aligned_alloc has returned so far
    handles,      \* bag of addresses returned by allocations and not yet deallocated
    bucket,       \* the bucket most recently returned to the caller: sequence of addresses
    ret,          \* what the last call was and what it returned
    pre,          \* registry_ and mem as they were when the last call started
    pc,           \* "run", "terminated" after std::terminate, "destroyed" after ~allocator
    conc          \* threads inside a call: a writer inside fetch(), a reader inside
                  \* status(), a thread inside initialize(), readers of the flag

regvars == <<N, registry_, ret, pre>>
allocvars == <<initialized_, storage_, mem, nblocks, handles, bucket, pc, conc>>
vars == <<N, registry_, initialized_, storage_, mem, nblocks, handles, bucket, ret, pre, pc,
          conc>>

\* ------------------------------------------------------------------------
\* unsigned int bit operations on one word of data_
\* ------------------------------------------------------------------------
\* (w & (1u << b)) != 0u
test_bit(w, b) == (w \div (2 ^ b)) % 2 = 1

\* w | (1u << b)
or_bit(w, b) == IF test_bit(w, b) THEN w ELSE w + (2 ^ b)

\* w & ~(1u << b)
clear_bit(w, b) == IF test_bit(w, b) THEN w - (2 ^ b) ELSE w

\* ------------------------------------------------------------------------
\* slot_status_registry<N>
\* ------------------------------------------------------------------------
\* a default-constructed registry: data_ = {0u}, in_use_ = 0u
new_registry(n) ==
    [data_ |-> [w \in 0 .. data_size_(n) - 1 |-> 0], in_use_ |-> 0]

is_in_use(reg, idx) ==
    test_bit(reg.data_[idx \div bits_per_int_], idx % bits_per_int_)

\* set() with the bit store lost: only the counter moves
set_counter_only(reg, idx) ==
    [data_ |-> reg.data_, in_use_ |-> reg.in_use_ + 1]

set(reg, idx) ==
    [data_   |-> [reg.data_ EXCEPT ![idx \div bits_per_int_] =
                                        or_bit(@, idx % bits_per_int_)],
     in_use_ |-> reg.in_use_ + 1]

\* unset() without the fetch_sub on in_use_
unset_bit_only(reg, idx) ==
    [data_   |-> [reg.data_ EXCEPT ![idx \div bits_per_int_] =
                                        clear_bit(@, idx % bits_per_int_)],
     in_use_ |-> reg.in_use_]

unset(reg, idx) ==
    [data_   |-> [reg.data_ EXCEPT ![idx \div bits_per_int_] =
                                        clear_bit(@, idx % bits_per_int_)],
     in_use_ |-> reg.in_use_ - 1]

\* has_free_space() admitting one slot more than is left
has_free_space_off_by_one(reg, n, total_needed) ==
    total_needed <= n - reg.in_use_ + 1

\* has_free_space() comparing against the capacity instead of what is left
has_free_space_of_capacity(reg, n, total_needed) == total_needed <= n

\* N - in_use_ is unsigned arithmetic: with in_use_ > N, or with in_use_
\* wrapped below zero (written here as a negative number), both reachable only
\* when two threads race, it wraps to a value no request exceeds
has_free_space(reg, n, total_needed) ==
    IF reg.in_use_ > n \/ reg.in_use_ < 0
    THEN TRUE
    ELSE total_needed <= n - reg.in_use_

\* the while loop of fetch(): `it` runs from data_ to data_ + max_index_ and
\* idx is incremented together with it, so idx < max_index_ is the loop test
RECURSIVE fetch_loop(_, _, _, _, _)
fetch_loop(reg, n, qty, idx, free_indexes) ==
    IF idx >= max_index_(n)
    THEN [reg |-> reg, free_indexes |-> free_indexes]
    ELSE IF ~is_in_use(reg, idx)
         THEN LET reg2 == set(reg, idx)
                  fi2  == Append(free_indexes, idx)
              IN  IF Len(fi2) = qty
                  THEN [reg |-> reg2, free_indexes |-> fi2]
                  ELSE fetch_loop(reg2, n, qty, idx + 1, fi2)
         ELSE fetch_loop(reg, n, qty, idx + 1, free_indexes)

\* fetch(qty): the registry afterwards, the code and the returned vector
fetch(reg, n, qty) ==
    IF ~has_free_space(reg, n, qty)
    THEN [reg |-> reg, code |-> not_enough_space_in_allocator, value |-> <<>>]
    ELSE LET r == fetch_loop(reg, n, qty, 0, <<>>)
         IN  IF Len(r.free_indexes) # qty
             THEN [reg |-> r.reg, code |-> bad_logic, value |-> <<>>]
             ELSE [reg |-> r.reg, code |-> ok, value |-> r.free_indexes]

\* release() without the is_in_use test
release_unchecked(reg, n, idx) ==
    IF idx < n THEN unset(reg, idx) ELSE reg

release(reg, n, idx) ==
    IF idx < n /\ is_in_use(reg, idx) THEN unset(reg, idx) ELSE reg

\* reset() stores 0u into the N unsigned ints starting at data_.  data_ has
\* data_size_ elements: the first data_size_ stores clear the bitmap, the
\* remaining N - data_size_ stores are past the end of the array (undefined
\* behaviour).  in_use_ is the member declared right after data_, so the first
\* store past the end either lands on it (zeroed = TRUE) or does not.
\* For N = 1 there is no store past the end and in_use_ is never written.
reset_outcomes(n) == IF n > data_size_(n) THEN {TRUE, FALSE} ELSE {FALSE}

reset(reg, n, zeroed) ==
    [data_   |-> [w \in 0 .. data_size_(n) - 1 |-> 0],
     in_use_ |-> IF zeroed THEN 0 ELSE reg.in_use_]

status(reg, n) == [used |-> reg.in_use_, free |-> n - reg.in_use_]

\* ------------------------------------------------------------------------
\* Derived notions used by the properties
\* ------------------------------------------------------------------------
SetBits(reg, n) == {i \in 0 .. n - 1 : is_in_use(reg, i)}
FreeBits(reg, n) == {i \in 0 .. n - 1 : ~is_in_use(reg, i)}

Range(s) == {s[i] : i \in 1 .. Len(s)}

\* the object as it is before a call: registry, slots, handles held by the
\* caller, the initialized flag, the storage pointer and the blocks reserved
Snapshot ==
    [registry_ |-> registry_, mem |-> mem, handles |-> handles,
     initialized_ |-> initialized_, storage_ |-> storage_, nblocks |-> nblocks,
     bucket |-> bucket]

\* a thread polling the flag: nothing observed yet
NoObservation == [pc |-> "call", flag |-> FALSE, seen |-> 0]

\* a thread that calls fetch() and release() on the shared registry: outside
\* any call, holding no index
NoWriter ==
    [pc |-> "idle", qty |-> 0, idx |-> 0, free_indexes |-> <<>>, w |-> 0,
     holds |-> {}, calls |-> 0, resets |-> 0]

Writers == {1, 2}

\* every thread outside any call; in_use_ has held the value 0 so far
NoThreads ==
    [wpc |-> "idle", qty |-> 0, idx |-> 0, free_indexes |-> <<>>,
     rpc |-> "idle", used |-> 0, returned |-> FALSE,
     snap |-> [used |-> 0, free |-> 0], held |-> {0},
     ipc |-> "idle", readers |-> [t \in 1 .. NReaders |-> NoObservation],
     writers |-> [t \in Writers |-> NoWriter], overlap |-> FALSE]

NoCall == [op |-> "none", arg |-> 0, code |-> ok, idxs |-> <<>>, ptrs |-> <<>>]

\* ------------------------------------------------------------------------
\* Initial state: objects just constructed
\* ------------------------------------------------------------------------
Init ==
    /\ N \in 1 .. MaxN
    /\ registry_ = new_registry(N)
    /\ initialized_ = FALSE
    /\ storage_ = 0
    /\ mem = [i \in 0 .. N - 1 |-> "none"]
    /\ nblocks = 0
    /\ handles = EmptyBag
    /\ bucket = <<>>
    /\ ret = NoCall
    /\ pre = [registry_ |-> registry_, mem |-> mem, handles |-> handles,
              initialized_ |-> initialized_, storage_ |-> storage_, nblocks |-> nblocks,
              bucket |-> bucket]
    /\ pc = "run"
    /\ conc = NoThreads

\* ------------------------------------------------------------------------
\* A registry used on its own (slot_status_registry_test.cpp)
\* ------------------------------------------------------------------------
Fetch(qty) ==
    LET r == fetch(registry_, N, qty)
    IN  /\ pre' = Snapshot
        /\ registry_' = r.reg
        /\ ret' = [op |-> "fetch", arg |-> qty, code |-> r.code,
                   idxs |-> r.value, ptrs |-> <<>>]
        /\ UNCHANGED <<N, allocvars>>

Release(idx) ==
    /\ pre' = Snapshot
    /\ registry_' = release(registry_, N, idx)
    /\ ret' = [op |-> "release", arg |-> idx, code |-> ok,
               idxs |-> <<>>, ptrs |-> <<>>]
    /\ UNCHANGED <<N, allocvars>>

Reset ==
    \E zeroed \in reset_outcomes(N) :
        /\ pre' = Snapshot
        /\ registry_' = reset(registry_, N, zeroed)
        /\ ret' = [op |-> "reset", arg |-> 0, code |-> ok,
                   idxs |-> <<>>, ptrs |-> <<>>]
        /\ UNCHANGED <<N, allocvars>>

RegFetch == \E qty \in 1 .. N + ExtraQty : Fetch(qty)
RegRelease == \E idx \in 0 .. N : Release(idx)
RegReset == Reset

RegNext == RegFetch \/ RegRelease \/ RegReset

RegSpec == Init /\ [][RegNext]_vars

\* ------------------------------------------------------------------------
\* allocator<TAlloc, NAlloc>
\* ------------------------------------------------------------------------
\* is_initialized() answering false whatever the flag is
is_initialized_never(flag) == FALSE

\* is_initialized() answering true whatever the flag is
is_initialized_always(flag) == TRUE

\* is_initialized(): initialized_.load(std::memory_order_acquire)
is_initialized(flag) == flag

\* &storage_[i]: an address is the pair <<block, slot index>>
addr(blk, i) == <<blk, i>>

\* an address outside every block this allocator has reserved
foreign == <<0, 0>>

\* contents of a slot: "none" (no block), "raw" (reserved, nothing constructed),
\* "live" (a TAlloc constructed by an allocation), "dflt" (overwritten with
\* TAlloc{} by deallocate), "dead" (destructor has run), "junk" (constructor threw)
raw_block == [i \in 0 .. N - 1 |-> "raw"]

Result(op, arg, code, ptrs) ==
    [op |-> op, arg |-> arg, code |-> code, idxs |-> <<>>, ptrs |-> ptrs]

\* initialize(): alloc_ok is whether std::aligned_alloc returns a block
Initialize ==
    /\ pc = "run"
    /\ UNCHANGED conc
    /\ \E alloc_ok \in BOOLEAN :
        /\ pre' = Snapshot
        /\ IF is_initialized(initialized_)
           THEN /\ ret' = Result("initialize", 0, already_initialized, <<>>)
                /\ UNCHANGED <<initialized_, storage_, mem, nblocks>>
           ELSE IF ~alloc_ok
                THEN /\ storage_' = 0
                     /\ mem' = [i \in 0 .. N - 1 |-> "none"]
                     /\ ret' = Result("initialize", 0, cannot_reserve_system_memory, <<>>)
                     /\ UNCHANGED <<initialized_, nblocks>>
                ELSE /\ nblocks < MaxBlocks
                     /\ nblocks' = nblocks + 1
                     /\ storage_' = nblocks + 1
                     /\ mem' = raw_block
                     /\ initialized_' = TRUE
                     /\ ret' = Result("initialize", 0, ok, <<>>)
        /\ UNCHANGED <<N, registry_, handles, bucket, pc>>

\* deinitialize(): std::destroy over all N slots when initialized, then the
\* flag is cleared and the registry reset
Deinitialize ==
    /\ pc = "run"
    /\ UNCHANGED conc
    /\ \E zeroed \in reset_outcomes(N) :
        /\ pre' = Snapshot
        /\ mem' = IF is_initialized(initialized_) THEN [i \in 0 .. N - 1 |-> "dead"] ELSE mem
        /\ initialized_' = FALSE
        /\ registry_' = reset(registry_, N, zeroed)
        /\ ret' = Result("deinitialize", 0, ok, <<>>)
        /\ UNCHANGED <<N, storage_, nblocks, handles, bucket, pc>>

\* allocate() giving the fetched slot back when the constructor throws
allocate_rolls_back(ctor_throws) ==
    /\ pre' = Snapshot
    /\ IF ~is_initialized(initialized_)
       THEN /\ ret' = Result("allocate", 0, not_initialized, <<>>)
            /\ UNCHANGED <<registry_, mem, handles>>
       ELSE LET indexes == fetch(registry_, N, 1)
            IN  IF indexes.code = ok
                THEN LET first_free == indexes.value[1]
                     IN  IF ctor_throws
                         THEN /\ mem' = [mem EXCEPT ![first_free] = "junk"]
                              /\ registry_' = release(indexes.reg, N, first_free)
                              /\ ret' = Result("allocate", 0, exception_caught_in_ctor, <<>>)
                              /\ UNCHANGED handles
                         ELSE /\ mem' = [mem EXCEPT ![first_free] = "live"]
                              /\ registry_' = indexes.reg
                              /\ ret' = Result("allocate", 0, ok,
                                               <<addr(storage_, first_free)>>)
                              /\ handles' = handles (+) SetToBag({addr(storage_, first_free)})
                ELSE /\ registry_' = indexes.reg
                     /\ ret' = Result("allocate", 0, bad_logic, <<>>)
                     /\ UNCHANGED <<mem, handles>>
    /\ UNCHANGED <<N, initialized_, storage_, nblocks, bucket, pc>>

\* allocate(args...): ctor_throws is whether TAlloc{args...} throws
allocate(ctor_throws) ==
    /\ pre' = Snapshot
    /\ IF ~is_initialized(initialized_)
       THEN /\ ret' = Result("allocate", 0, not_initialized, <<>>)
            /\ UNCHANGED <<registry_, mem, handles>>
       ELSE LET indexes == fetch(registry_, N, 1)
            IN  /\ registry_' = indexes.reg
                /\ IF indexes.code = ok
                   THEN LET first_free == indexes.value[1]
                        IN  IF ctor_throws
                            THEN /\ mem' = [mem EXCEPT ![first_free] = "junk"]
                                 /\ ret' = Result("allocate", 0, exception_caught_in_ctor, <<>>)
                                 /\ UNCHANGED handles
                            ELSE /\ mem' = [mem EXCEPT ![first_free] = "live"]
                                 /\ ret' = Result("allocate", 0, ok,
                                                  <<addr(storage_, first_free)>>)
                                 /\ handles' = handles (+) SetToBag({addr(storage_, first_free)})
                   ELSE /\ ret' = Result("allocate", 0, bad_logic, <<>>)
                        /\ UNCHANGED <<mem, handles>>
    /\ UNCHANGED <<N, initialized_, storage_, nblocks, bucket, pc>>

Allocate ==
    /\ pc = "run"
    /\ UNCHANGED conc
    /\ \E ctor_throws \in BOOLEAN : allocate(ctor_throws)

\* bucket::push_back on a bucket of capacity NBucket
push_back(data, NBucket, slot) ==
    IF Len(data) < NBucket
    THEN [data |-> Append(data, slot), pushed |-> TRUE]
    ELSE [data |-> data, pushed |-> FALSE]

\* the for loop of allocate_bucket() over the fetched indexes, from position k:
\* throw_at is the position whose TAlloc{} throws (0: none does)
RECURSIVE bucket_loop(_, _, _, _, _)
bucket_loop(frees, k, m, data, throw_at) ==
    IF k > Len(frees)
    THEN [mem |-> m, data |-> data, code |-> ok]
    ELSE IF k = throw_at
         THEN [mem |-> [m EXCEPT ![frees[k]] = "junk"], data |-> data,
               code |-> exception_caught_in_ctor]
         ELSE LET m2 == [m EXCEPT ![frees[k]] = "live"]
                  pb == push_back(data, N, addr(storage_, frees[k]))
              IN  IF ~pb.pushed
                  THEN [mem |-> m2, data |-> data, code |-> bad_logic]
                  ELSE bucket_loop(frees, k + 1, m2, pb.data, throw_at)

\* allocate_bucket<SIZE>(): the bucket has capacity NAlloc and NAlloc indexes
\* are fetched, whatever SIZE is
allocate_bucket(SIZE, throw_at) ==
    /\ pre' = Snapshot
    /\ IF ~is_initialized(initialized_)
       THEN /\ ret' = Result("allocate_bucket", SIZE, not_initialized, <<>>)
            /\ UNCHANGED <<registry_, mem, handles, bucket>>
       ELSE LET frees == fetch(registry_, N, N)
            IN  /\ registry_' = frees.reg
                /\ IF frees.code = ok
                   THEN LET r == bucket_loop(frees.value, 1, mem, <<>>, throw_at)
                        IN  /\ mem' = r.mem
                            /\ IF r.code = ok
                               THEN /\ ret' = Result("allocate_bucket", SIZE, ok, r.data)
                                    /\ bucket' = r.data
                                    /\ handles' = handles (+) SetToBag(Range(r.data))
                               ELSE /\ ret' = Result("allocate_bucket", SIZE, r.code, <<>>)
                                    /\ UNCHANGED <<handles, bucket>>
                   ELSE /\ ret' = Result("allocate_bucket", SIZE,
                                         not_enough_space_in_allocator, <<>>)
                        /\ UNCHANGED <<mem, handles, bucket>>
    /\ UNCHANGED <<N, initialized_, storage_, nblocks, pc>>

AllocateBucket ==
    /\ pc = "run"
    /\ UNCHANGED conc
    /\ \E SIZE \in 1 .. N + ExtraQty : \E throw_at \in 0 .. N :
          allocate_bucket(SIZE, throw_at)

\* the addresses a caller can pass to deallocate: any slot of any block
\* reserved so far (returned earlier or not), or a foreign address
Addresses == {addr(b, i) : b \in 1 .. nblocks, i \in 0 .. N - 1} \cup {foreign}

\* the comparison done on the slot offset alone, whatever block the address is in
matching_by_offset(allocated) == {i \in 0 .. N - 1 : allocated[2] = i}

\* the slots i with allocated == &storage_[i]
matching(allocated) == {i \in 0 .. N - 1 : allocated = addr(storage_, i)}

\* deallocate(TAlloc* allocated): dtor_throws is whether ~TAlloc() throws,
\* dflt_throws whether the TAlloc{} assigned into the slot throws (the
\* function is noexcept, so that exception calls std::terminate)
deallocate(allocated, dtor_throws, dflt_throws) ==
    /\ pre' = Snapshot
    /\ IF ~is_initialized(initialized_)
       THEN /\ ret' = Result("deallocate", 0, not_initialized, <<allocated>>)
            /\ UNCHANGED <<registry_, mem, handles, pc>>
       ELSE IF matching(allocated) = {}
            THEN /\ ret' = Result("deallocate", 0, ok, <<allocated>>)
                 /\ UNCHANGED <<registry_, mem, handles, pc>>
            ELSE LET i == CHOOSE j \in matching(allocated) : TRUE
                 IN  IF dtor_throws
                     THEN /\ mem' = [mem EXCEPT ![i] = "dead"]
                          /\ ret' = Result("deallocate", 0, exception_caught_in_dctor,
                                           <<allocated>>)
                          /\ UNCHANGED <<registry_, handles, pc>>
                     ELSE IF dflt_throws
                          THEN /\ mem' = [mem EXCEPT ![i] = "dead"]
                               /\ pc' = "terminated"
                               /\ ret' = Result("deallocate", 0, "terminate", <<allocated>>)
                               /\ UNCHANGED <<registry_, handles>>
                          ELSE /\ mem' = [mem EXCEPT ![i] = "dflt"]
                               /\ registry_' = release(registry_, N, i)
                               /\ handles' = handles (-) SetToBag({allocated})
                               /\ ret' = Result("deallocate", 0, ok, <<allocated>>)
                               /\ UNCHANGED pc
    /\ UNCHANGED <<N, initialized_, storage_, nblocks, bucket>>

Deallocate ==
    /\ pc = "run"
    /\ UNCHANGED conc
    /\ \E allocated \in Addresses : \E dtor_throws \in BOOLEAN, dflt_throws \in BOOLEAN :
          deallocate(allocated, dtor_throws, dflt_throws)

\* std::same_as on the types named in the source
same_as(T, U) == T = U

\* the element type of the bucket allocate_bucket() returns: bucket<TAlloc*, NAlloc>
bucket_value_type == "TAlloc*"

\* deallocate(bucket<TBucket, NBucket>&) is a candidate only when
\* same_as<TAlloc, TBucket>, and its body passes a TBucket to
\* deallocate(TAlloc*)
deallocate_bucket_well_formed(TBucket) ==
    /\ same_as("TAlloc", TBucket)
    /\ TBucket = "TAlloc*"

\* deallocate(bucket): no TBucket is well formed, so for every bucket the call
\* is rejected when the program is built and nothing is deallocated
deallocate_bucket(TBucket) ==
    /\ pre' = Snapshot
    /\ ~deallocate_bucket_well_formed(TBucket)
    /\ ret' = Result("deallocate_bucket", Len(bucket), "ill_formed", bucket)
    /\ UNCHANGED <<N, registry_, initialized_, storage_, mem, nblocks, handles,
                   bucket, pc>>

DeallocateBucket ==
    /\ pc = "run"
    /\ bucket # <<>>
    /\ UNCHANGED conc
    /\ deallocate_bucket(bucket_value_type)

\* ~allocator(): deinitialize(), then std::free(storage_); the pointer the
\* dead object held stays in storage_ as the record of what was freed
DestroyAllocator ==
    /\ pc = "run"
    /\ UNCHANGED conc
    /\ \E zeroed \in reset_outcomes(N) :
        /\ pre' = Snapshot
        /\ mem' = IF storage_ # 0 THEN [i \in 0 .. N - 1 |-> "none"] ELSE mem
        /\ initialized_' = FALSE
        /\ registry_' = reset(registry_, N, zeroed)
        /\ pc' = "destroyed"
        /\ ret' = Result("~allocator", 0, ok, <<>>)
        /\ UNCHANGED <<N, storage_, nblocks, handles, bucket>>

Next ==
    \/ Initialize \/ Deinitialize \/ Allocate \/ AllocateBucket \/ Deallocate
    \/ DeallocateBucket \/ DestroyAllocator

Spec == Init /\ [][Next]_vars

\* ------------------------------------------------------------------------
\* One thread mutating the registry while another one calls status()
\* ------------------------------------------------------------------------
\* one evaluation of the loop test of fetch() and, when it holds, of the body
fetch_step(reg, n, qty, idx, free_indexes) ==
    IF idx >= max_index_(n)
    THEN [reg |-> reg, idx |-> idx, free_indexes |-> free_indexes, done |-> TRUE]
    ELSE IF ~is_in_use(reg, idx)
         THEN LET reg2 == set(reg, idx)
                  fi2  == Append(free_indexes, idx)
              IN  IF Len(fi2) = qty
                  THEN [reg |-> reg2, idx |-> idx, free_indexes |-> fi2, done |-> TRUE]
                  ELSE [reg |-> reg2, idx |-> idx + 1, free_indexes |-> fi2,
                        done |-> FALSE]
         ELSE [reg |-> reg, idx |-> idx + 1, free_indexes |-> free_indexes,
               done |-> FALSE]

\* status() computing free from a second load of in_use_
status_two_loads(used, reg, n) == [used |-> used, free |-> n - reg.in_use_]

\* the status_t built from the value `used` that status() loaded from in_use_
status_of(used, reg, n) == [used |-> used, free |-> n - used]

\* writer: fetch(qty) up to the has_free_space pre-check
WFetchBegin ==
    /\ conc.wpc = "idle"
    /\ \E qty \in 1 .. N + ExtraQty :
          /\ has_free_space(registry_, N, qty)
          /\ conc' = [conc EXCEPT !.wpc = "scan", !.qty = qty, !.idx = 0,
                                   !.free_indexes = <<>>]
    /\ UNCHANGED <<N, registry_, initialized_, storage_, mem, nblocks, handles,
                   bucket, ret, pre, pc>>

\* writer: one iteration of the scan loop of fetch(); set() does its fetch_add
WFetchStep ==
    /\ conc.wpc = "scan"
    /\ LET r == fetch_step(registry_, N, conc.qty, conc.idx, conc.free_indexes)
       IN  /\ registry_' = r.reg
           /\ conc' = [conc EXCEPT !.wpc = IF r.done THEN "idle" ELSE "scan",
                                    !.idx = r.idx,
                                    !.free_indexes = r.free_indexes,
                                    !.held = @ \cup {r.reg.in_use_}]
    /\ UNCHANGED <<N, initialized_, storage_, mem, nblocks, handles,
                   bucket, ret, pre, pc>>

\* writer: release(idx); unset() does its fetch_sub
WRelease ==
    /\ conc.wpc = "idle"
    /\ \E idx \in 0 .. N :
          LET reg == release(registry_, N, idx)
          IN  /\ registry_' = reg
              /\ conc' = [conc EXCEPT !.held = @ \cup {reg.in_use_}]
    /\ UNCHANGED <<N, initialized_, storage_, mem, nblocks, handles,
                   bucket, ret, pre, pc>>

\* reader: status() loads in_use_
RLoad ==
    /\ conc.rpc = "idle"
    /\ conc' = [conc EXCEPT !.rpc = "loaded", !.used = registry_.in_use_]
    /\ UNCHANGED <<N, registry_, initialized_, storage_, mem, nblocks, handles,
                   bucket, ret, pre, pc>>

\* reader: status() builds the status_t from the loaded value and returns it
RReturn ==
    /\ conc.rpc = "loaded"
    /\ conc' = [conc EXCEPT !.rpc = "idle", !.returned = TRUE,
                             !.snap = status_of(conc.used, registry_, N)]
    /\ UNCHANGED <<N, registry_, initialized_, storage_, mem, nblocks, handles,
                   bucket, ret, pre, pc>>

ConcNext == WFetchBegin \/ WFetchStep \/ WRelease \/ RLoad \/ RReturn

ConcSpec == Init /\ [][ConcNext]_vars

\* ------------------------------------------------------------------------
\* Two threads calling fetch() and release() on one registry
\* ------------------------------------------------------------------------
\* the call of thread th returns: a successful fetch adds its indexes to the
\* ones the thread holds
returned(th, fetched) ==
    [th EXCEPT !.pc = "idle", !.calls = @ + 1, !.holds = @ \cup fetched]

\* one step of fetch() or release() by a thread at position th.pc.  The bit
\* test, the load and the store of `data_[i] |= mask` / `data_[i] &= ~mask`
\* and the fetch_add / fetch_sub on in_use_ are separate steps
writer_step(th, reg, n) ==
    LET word == th.idx \div bits_per_int_
        bit  == th.idx % bits_per_int_
    IN  CASE th.pc = "check" ->
               IF ~has_free_space(reg, n, th.qty)
               THEN [th |-> returned(th, {}), reg |-> reg]
               ELSE [th |-> [th EXCEPT !.pc = "test"], reg |-> reg]
          [] th.pc = "test" ->
               IF th.idx >= max_index_(n)
               THEN [th |-> returned(th, {}), reg |-> reg]
               ELSE IF ~is_in_use(reg, th.idx)
                    THEN [th |-> [th EXCEPT !.pc = "load"], reg |-> reg]
                    ELSE [th |-> [th EXCEPT !.idx = @ + 1], reg |-> reg]
          [] th.pc = "load" ->
               [th |-> [th EXCEPT !.pc = "store", !.w = reg.data_[word]], reg |-> reg]
          [] th.pc = "store" ->
               [th  |-> [th EXCEPT !.pc = "add"],
                reg |-> [reg EXCEPT !.data_[word] = or_bit(th.w, bit)]]
          [] th.pc = "add" ->
               LET fi2  == Append(th.free_indexes, th.idx)
                   reg2 == [reg EXCEPT !.in_use_ = @ + 1]
               IN  IF Len(fi2) = th.qty
                   THEN [th |-> returned([th EXCEPT !.free_indexes = fi2], Range(fi2)),
                         reg |-> reg2]
                   ELSE [th |-> [th EXCEPT !.pc = "test", !.idx = @ + 1,
                                           !.free_indexes = fi2],
                         reg |-> reg2]
          [] th.pc = "rtest" ->
               IF th.idx < n /\ is_in_use(reg, th.idx)
               THEN [th |-> [th EXCEPT !.pc = "rload"], reg |-> reg]
               ELSE [th |-> returned(th, {}), reg |-> reg]
          [] th.pc = "rload" ->
               [th |-> [th EXCEPT !.pc = "rstore", !.w = reg.data_[word]], reg |-> reg]
          [] th.pc = "rstore" ->
               [th  |-> [th EXCEPT !.pc = "sub"],
                reg |-> [reg EXCEPT !.data_[word] = clear_bit(th.w, bit)]]
          [] th.pc = "sub" ->
               [th |-> returned(th, {}), reg |-> [reg EXCEPT !.in_use_ = @ - 1]]

\* some other thread is inside a call
OthersBusy(t) == \E u \in Writers \ {t} : conc.writers[u].pc # "idle"

\* thread t calls fetch(qty)
CallFetch(t) ==
    /\ conc.writers[t].pc = "idle"
    /\ conc.writers[t].calls < MaxCalls
    /\ \E qty \in 1 .. N :
          conc' = [conc EXCEPT !.writers[t] =
                                   [@ EXCEPT !.pc = "check", !.qty = qty, !.idx = 0,
                                             !.free_indexes = <<>>],
                               !.overlap = @ \/ OthersBusy(t)]
    /\ UNCHANGED <<N, registry_, initialized_, storage_, mem, nblocks, handles,
                   bucket, ret, pre, pc>>

\* thread t calls release(idx) on an index it holds
CallRelease(t) ==
    /\ conc.writers[t].pc = "idle"
    /\ conc.writers[t].calls < MaxCalls
    /\ \E idx \in conc.writers[t].holds :
          conc' = [conc EXCEPT !.writers[t] =
                                   [@ EXCEPT !.pc = "rtest", !.idx = idx,
                                             !.holds = @ \ {idx}],
                               !.overlap = @ \/ OthersBusy(t)]
    /\ UNCHANGED <<N, registry_, initialized_, storage_, mem, nblocks, handles,
                   bucket, ret, pre, pc>>

\* thread t calls reset(): the indexes handed out so far are no longer held
CallReset(t) ==
    /\ conc.writers[t].pc = "idle"
    /\ conc.writers[t].calls < MaxCalls
    /\ \E zeroed \in reset_outcomes(N) :
          registry_' = reset(registry_, N, zeroed)
    /\ conc' = [conc EXCEPT !.writers = [u \in Writers |->
                                            IF u = t
                                            THEN [@[u] EXCEPT !.holds = {}, !.calls = @ + 1,
                                                              !.resets = @ + 1]
                                            ELSE [@[u] EXCEPT !.holds = {}]],
                            !.overlap = @ \/ OthersBusy(t)]
    /\ UNCHANGED <<N, initialized_, storage_, mem, nblocks, handles,
                   bucket, ret, pre, pc>>

\* thread t takes the next step of the call it is in
WriterStep(t) ==
    /\ conc.writers[t].pc # "idle"
    /\ LET r == writer_step(conc.writers[t], registry_, N)
       IN  /\ registry_' = r.reg
           /\ conc' = [conc EXCEPT !.writers[t] = r.th]
    /\ UNCHANGED <<N, initialized_, storage_, mem, nblocks, handles,
                   bucket, ret, pre, pc>>

RaceFetch == \E t \in Writers : CallFetch(t)
RaceRelease == \E t \in Writers : CallRelease(t)
RaceReset == \E t \in Writers : CallReset(t)
RaceStep == \E t \in Writers : WriterStep(t)

RaceNext == RaceFetch \/ RaceRelease \/ RaceReset \/ RaceStep

RaceSpec == Init /\ [][RaceNext]_vars

\* ------------------------------------------------------------------------
\* A bucket<TAlloc*, NAlloc> used on its own: the allocator appends, the
\* caller indexes
\* ------------------------------------------------------------------------
\* operator[] testing idx > size_ instead of idx >= size_
bucket_at_inclusive(data, idx) ==
    IF idx > Len(data)
    THEN [code |-> out_of_bounds, value |-> <<>>]
    ELSE [code |-> ok, value |-> <<IF idx < Len(data) THEN data[idx + 1] ELSE foreign>>]

\* bucket::operator[](idx): data is data_[0 .. size_ - 1]
bucket_at(data, idx) ==
    IF idx >= Len(data)
    THEN [code |-> out_of_bounds, value |-> <<>>]
    ELSE [code |-> ok, value |-> <<data[idx + 1]>>]

\* the allocator appends the address of slot i of block 1
BucketPushBack ==
    \E i \in 0 .. N - 1 :
        LET pb == push_back(bucket, N, addr(1, i))
        IN  /\ pre' = Snapshot
            /\ bucket' = pb.data
            /\ ret' = Result("push_back", Len(bucket),
                              IF pb.pushed THEN ok ELSE bad_logic, <<addr(1, i)>>)
            /\ UNCHANGED <<N, registry_, initialized_, storage_, mem, nblocks, handles,
                           pc, conc>>

\* the caller evaluates bucket[idx]
BucketIndex ==
    \E idx \in 0 .. N + ExtraQty :
        LET r == bucket_at(bucket, idx)
        IN  /\ pre' = Snapshot
            /\ ret' = Result("operator[]", idx, r.code, r.value)
            /\ UNCHANGED <<N, registry_, initialized_, storage_, mem, nblocks, handles,
                           bucket, pc, conc>>

BucketNext == BucketPushBack \/ BucketIndex

BucketSpec == Init /\ [][BucketNext]_vars

\* ------------------------------------------------------------------------
\* One thread inside initialize() while other threads poll is_initialized()
\* ------------------------------------------------------------------------
\* initialize() storing the flag before the storage pointer
initialize_flag_first(ipc, flag, stor, blk) ==
    CASE ipc = "idle" ->
           IF is_initialized(flag)
           THEN [ipc |-> "idle", flag |-> flag, stor |-> stor, code |-> already_initialized]
           ELSE [ipc |-> "alloc", flag |-> flag, stor |-> stor, code |-> ok]
      [] ipc = "alloc" ->
           [ipc |-> "publish", flag |-> TRUE, stor |-> stor, code |-> ok]
      [] ipc = "publish" ->
           [ipc |-> "idle", flag |-> flag, stor |-> blk,
            code |-> IF blk = 0 THEN cannot_reserve_system_memory ELSE ok]

\* one step of initialize() from position ipc: the is_initialized() test, the
\* assignment of storage_ (blk is what std::aligned_alloc returns, 0 for
\* nullptr) with its null test, the release store of initialized_
initialize_step(ipc, flag, stor, blk) ==
    CASE ipc = "idle" ->
           IF is_initialized(flag)
           THEN [ipc |-> "idle", flag |-> flag, stor |-> stor, code |-> already_initialized]
           ELSE [ipc |-> "alloc", flag |-> flag, stor |-> stor, code |-> ok]
      [] ipc = "alloc" ->
           IF blk = 0
           THEN [ipc |-> "idle", flag |-> flag, stor |-> 0,
                 code |-> cannot_reserve_system_memory]
           ELSE [ipc |-> "publish", flag |-> flag, stor |-> blk, code |-> ok]
      [] ipc = "publish" ->
           [ipc |-> "idle", flag |-> TRUE, stor |-> stor, code |-> ok]

\* the thread calling initialize() takes its next step
InitializeStep ==
    \E alloc_ok \in BOOLEAN :
        LET blk == IF alloc_ok THEN nblocks + 1 ELSE 0
            r   == initialize_step(conc.ipc, initialized_, storage_, blk)
        IN  /\ alloc_ok => nblocks < MaxBlocks
            /\ initialized_' = r.flag
            /\ storage_' = r.stor
            /\ nblocks' = IF r.stor # storage_ /\ r.stor # 0 THEN nblocks + 1 ELSE nblocks
            /\ mem' = IF r.stor = storage_ THEN mem
                      ELSE IF r.stor = 0 THEN [i \in 0 .. N - 1 |-> "none"]
                      ELSE raw_block
            /\ pre' = IF conc.ipc = "idle" THEN Snapshot ELSE pre
            /\ ret' = IF r.ipc = "idle" THEN Result("initialize", 0, r.code, <<>>) ELSE ret
            /\ conc' = [conc EXCEPT !.ipc = r.ipc]
            /\ UNCHANGED <<N, registry_, handles, bucket, pc>>

\* reader t calls is_initialized(): the acquire load of initialized_
PollFlag(t) ==
    /\ conc.readers[t].pc = "call"
    /\ conc' = [conc EXCEPT !.readers[t] =
                    [pc |-> IF is_initialized(initialized_) THEN "use" ELSE "call",
                     flag |-> is_initialized(initialized_), seen |-> 0]]
    /\ UNCHANGED <<N, registry_, initialized_, storage_, mem, nblocks, handles,
                   bucket, ret, pre, pc>>

\* reader t, having seen the flag true, reads storage_
ReadStorage(t) ==
    /\ conc.readers[t].pc = "use"
    /\ conc' = [conc EXCEPT !.readers[t] =
                    [pc |-> "call", flag |-> @.flag, seen |-> storage_]]
    /\ UNCHANGED <<N, registry_, initialized_, storage_, mem, nblocks, handles,
                   bucket, ret, pre, pc>>

Poll == \E t \in 1 .. NReaders : PollFlag(t)
Read == \E t \in 1 .. NReaders : ReadStorage(t)

PublishNext == InitializeStep \/ Poll \/ Read

PublishSpec == Init /\ [][PublishNext]_vars

\* ------------------------------------------------------------------------
\* Properties of the registry (checked under RegSpec)
\* ------------------------------------------------------------------------
\* the n smallest elements of a set of indices, ascending
RECURSIVE Smallest(_, _)
Smallest(S, n) ==
    IF n = 0 \/ S = {} THEN <<>>
    ELSE LET m == CHOOSE x \in S : \A y \in S : x <= y
         IN  <<m>> \o Smallest(S \ {m}, n - 1)

\* C2: after any sequence of completed fetch, release and reset calls the
\* used-count reported by status() equals the number of slot bits that are set.
C2_UsedCountEqualsSetBits ==
    status(registry_, N).used = Cardinality(SetBits(registry_, N))

\* C3: fetch(count) with 1 <= count <= free succeeds, returns the count
\* smallest free indices in ascending order, marks exactly those indices used
\* and raises the used-count by count.
C3_FetchFirstFit ==
    (ret.op = "fetch" /\ ret.arg >= 1
        /\ ret.arg <= Cardinality(FreeBits(pre.registry_, N)))
    => /\ ret.code = ok
       /\ ret.idxs = Smallest(FreeBits(pre.registry_, N), ret.arg)
       /\ SetBits(registry_, N) = SetBits(pre.registry_, N) \cup Range(ret.idxs)
       /\ registry_.in_use_ = pre.registry_.in_use_ + ret.arg

\* C9: fetch(count) returns either exactly count indices or
\* not_enough_space_in_allocator, never bad_logic.
C9_FetchNeverBadLogic ==
    ret.op = "fetch"
    => \/ ret.code = ok /\ Len(ret.idxs) = ret.arg
       \/ ret.code = not_enough_space_in_allocator

\* C10: fetch(count) with count greater than the number of free slots fails
\* with not_enough_space_in_allocator and leaves the bitmap and the used-count
\* as they were.
C10_FetchTooManyRejected ==
    (ret.op = "fetch" /\ ret.arg > Cardinality(FreeBits(pre.registry_, N)))
    => /\ ret.code = not_enough_space_in_allocator
       /\ registry_ = pre.registry_

\* a fetch of more than the free slots was issued on a partly used registry,
\* and one asking for more than the capacity
C10_Witness ==
    /\ ret.op = "fetch"
    /\ ret.arg > Cardinality(FreeBits(pre.registry_, N))
    /\ ret.arg <= N
    /\ SetBits(pre.registry_, N) # {}
    /\ FreeBits(pre.registry_, N) # {}

\* C11: release(idx) with idx < N and bit idx set clears exactly that bit and
\* decrements the used-count by 1; with idx out of range or the bit already
\* clear it changes nothing; a second release(idx) changes nothing.
C11_ReleaseClearsOneBit ==
    ret.op = "release"
    => /\ IF ret.arg < N /\ is_in_use(pre.registry_, ret.arg)
          THEN /\ SetBits(registry_, N) = SetBits(pre.registry_, N) \ {ret.arg}
               /\ registry_.in_use_ = pre.registry_.in_use_ - 1
          ELSE registry_ = pre.registry_
       /\ release(registry_, N, ret.arg) = registry_

\* a used slot was released
C11_Witness ==
    /\ ret.op = "release"
    /\ ret.arg < N
    /\ is_in_use(pre.registry_, ret.arg)
    /\ ~is_in_use(registry_, ret.arg)

\* C12: reset() clears every slot bit and sets the used-count to zero, so
\* status() = {used: 0, free: N} and the next fetch() returns index 0
\* (stated for the capacities at which reset() writes inside data_ only).
C12_ResetRestoresEmpty ==
    (ret.op = "reset" /\ N <= data_size_(N))
    => /\ SetBits(registry_, N) = {}
       /\ status(registry_, N) = [used |-> 0, free |-> N]
       /\ fetch(registry_, N, 1).code = ok
       /\ fetch(registry_, N, 1).value = <<0>>

\* ------------------------------------------------------------------------
\* Properties of the allocator (checked under Spec)
\* ------------------------------------------------------------------------
\* the call recorded in ret was made on an initialized allocator
\* (allocate, allocate_bucket and deallocate leave initialized_ as it was)
OnInitialized(op) == ret.op = op /\ ret.code # not_initialized

NoDuplicateHandles == \A h \in BagToSet(handles) : CopiesIn(h, handles) = 1

\* C1: a successful allocate marks exactly one previously free slot used
\* (used grows by 1, the other bits keep their value) and returns the address
\* of that slot; no two handles returned and not yet deallocated are equal.
C1_AllocateTakesOneFreeSlot ==
    /\ (ret.op = "allocate" /\ ret.code = ok)
       => \E i \in FreeBits(pre.registry_, N) :
             /\ SetBits(registry_, N) = SetBits(pre.registry_, N) \cup {i}
             /\ status(registry_, N).used = status(pre.registry_, N).used + 1
             /\ ret.ptrs = <<addr(storage_, i)>>
             /\ mem[i] = "live"
    /\ NoDuplicateHandles

\* a successful allocate that reuses a slot freed by an earlier deallocate
C1_Witness ==
    /\ ret.op = "allocate" /\ ret.code = ok
    /\ \E i \in 0 .. N - 1 : pre.mem[i] = "dflt" /\ ret.ptrs = <<addr(storage_, i)>>
    /\ BagIn(ret.ptrs[1], handles)

\* the last call was deallocate(h) on an initialized allocator, h being a
\* handle returned by an allocation of the current block, not yet
\* deallocated, whose object was live when the call started
DeallocatedLiveHandle ==
    /\ OnInitialized("deallocate")
    /\ LET h == ret.ptrs[1]
       IN  /\ BagIn(h, pre.handles)
           /\ h[1] = storage_
           /\ pre.mem[h[2]] = "live"

\* the slot of address h is free again and is the one the next allocate() gets
AvailableAgain(h) ==
    /\ ~is_in_use(registry_, h[2])
    /\ fetch(registry_, N, 1).code = ok
    /\ fetch(registry_, N, 1).value = <<h[2]>>

ReleasedByOne ==
    /\ status(registry_, N).used = status(pre.registry_, N).used - 1
    /\ status(registry_, N).free = status(pre.registry_, N).free + 1

C5_BucketOfRequestedSize ==
    (OnInitialized("allocate_bucket")
        /\ ret.arg <= status(pre.registry_, N).free
        /\ ret.code # exception_caught_in_ctor)
    => /\ ret.code = ok
       /\ Len(ret.ptrs) = ret.arg
       /\ Cardinality(Range(ret.ptrs)) = ret.arg
       /\ \A k \in 1 .. Len(ret.ptrs) :
             /\ ret.ptrs[k][1] = storage_
             /\ ret.ptrs[k][2] \in FreeBits(pre.registry_, N)
       /\ status(registry_, N).used = status(pre.registry_, N).used + ret.arg

\* C6: allocate_bucket(K) with K > free fails with
\* not_enough_space_in_allocator and changes neither status(), nor any slot
\* bit, nor any slot content.
C6_BucketRejectedUnchanged ==
    (OnInitialized("allocate_bucket")
        /\ ret.arg > status(pre.registry_, N).free)
    => /\ ret.code = not_enough_space_in_allocator
       /\ registry_ = pre.registry_
       /\ mem = pre.mem

\* C7: allocate() on an initialized allocator with free = 0 fails with
\* not_enough_space_in_allocator and leaves status() unchanged.
C7_AllocateFullNoFreeSpace ==
    (OnInitialized("allocate") /\ status(pre.registry_, N).free = 0)
    => /\ ret.code = not_enough_space_in_allocator
       /\ status(registry_, N) = status(pre.registry_, N)

\* C8: on an initialized allocator slot i is live iff registry bit i is set
\* (stated for the states in which no constructor or destructor has thrown
\* on a slot of the block).
C8_LiveIffBitSet ==
    (initialized_ /\ \A i \in 0 .. N - 1 : mem[i] \in {"raw", "live", "dflt"})
    => \A i \in 0 .. N - 1 : (mem[i] = "live") <=> is_in_use(registry_, i)

\* C13: status() returns {used, free} with free = N - used, 0 <= used <= N and
\* used + free = N in every reachable state; a freshly constructed object
\* (no call made yet, not initialized) reports {used: 0, free: N}.
C13_StatusWithinCapacity ==
    LET s == status(registry_, N)
    IN  /\ s.free = N - s.used
        /\ 0 <= s.used /\ s.used <= N
        /\ 0 <= s.free
        /\ s.used + s.free = N
        /\ ret.op = "none" => s = [used |-> 0, free |-> N]

\* an initialized pool reporting every slot used
C13_Witness ==
    /\ initialized_
    /\ ret.op = "allocate" /\ ret.code = ok
    /\ status(registry_, N) = [used |-> N, free |-> 0]

\* C14: initialize() on an initialized allocator fails with
\* already_initialized and leaves the storage block, the flag and the
\* registry as they were.
C14_InitializeTwiceRejected ==
    (ret.op = "initialize" /\ pre.initialized_)
    => /\ ret.code = already_initialized
       /\ storage_ = pre.storage_
       /\ nblocks = pre.nblocks
       /\ initialized_ = pre.initialized_
       /\ registry_ = pre.registry_
       /\ mem = pre.mem

\* initialize() was called again on an allocator holding a live object
C14_Witness ==
    /\ ret.op = "initialize"
    /\ pre.initialized_
    /\ \E i \in 0 .. N - 1 : mem[i] = "live"

C16_StorageIffInitialized == (storage_ # 0) <=> initialized_

\* C17: deinitialize() leaves the allocator uninitialized with an empty
\* registry (status() = {used: 0, free: N}); on an allocator that is not
\* initialized it destroys nothing and changes nothing
\* (stated for the capacities at which reset() writes inside data_ only).
C17_DeinitializeEmptiesRegistry ==
    (ret.op = "deinitialize" /\ N <= data_size_(N))
    => /\ ~is_initialized(initialized_)
       /\ status(registry_, N) = [used |-> 0, free |-> N]
       /\ ~pre.initialized_
            => /\ mem = pre.mem
               /\ registry_ = pre.registry_
               /\ storage_ = pre.storage_

\* C18: deallocate(p) on an initialized allocator, p not being the address of
\* any slot of its storage, reports success and changes neither status(),
\* nor any slot bit, nor any slot content.
C18_ForeignAddressNoOp ==
    (ret.op = "deallocate" /\ pre.initialized_
        /\ ret.ptrs[1] \notin {addr(pre.storage_, i) : i \in 0 .. N - 1})
    => /\ ret.code = ok
       /\ registry_ = pre.registry_
       /\ mem = pre.mem
       /\ pc = "run"

\* an address of no slot was deallocated while an object was live
C18_Witness ==
    /\ ret.op = "deallocate" /\ pre.initialized_
    /\ ret.ptrs[1] \notin {addr(pre.storage_, i) : i \in 0 .. N - 1}
    /\ \E i \in 0 .. N - 1 : pre.mem[i] = "live" /\ is_in_use(pre.registry_, i)

\* C19: no failure of T's constructor or destructor escapes allocate,
\* allocate_bucket or deallocate or aborts the program: the call returns,
\* with exception_caught_in_ctor or exception_caught_in_dctor.
C19_NoFailureEscapes ==
    /\ ret.op \in {"allocate", "allocate_bucket"} => pc = "run"
    /\ DeallocatedLiveHandle
         => /\ pc = "run"
            /\ ret.code \in {ok, exception_caught_in_dctor}

\* ------------------------------------------------------------------------
\* Properties of status() under concurrency (checked under ConcSpec)
\* ------------------------------------------------------------------------
\* C20: with one thread mutating the registry and another calling status()
\* at any point, every status() result has 0 <= used <= N, used + free = N,
\* and used is a value the used-count has held during the execution.
C20_StatusSnapshotValid ==
    conc.returned
    => /\ 0 <= conc.snap.used /\ conc.snap.used <= N
       /\ conc.snap.used + conc.snap.free = N
       /\ conc.snap.used \in conc.held

\* status() returned a value that is already stale: the writer, still inside
\* fetch(), has changed the used-count since the load
C20_Witness ==
    /\ conc.returned
    /\ conc.rpc = "idle"
    /\ conc.wpc = "scan"
    /\ conc.snap.used # registry_.in_use_

\* ------------------------------------------------------------------------
\* Properties of initialize() under concurrency (checked under PublishSpec)
\* ------------------------------------------------------------------------
\* C21: at every interleaving of initialize() with concurrent readers, the
\* flag being true implies the storage pointer is non-null, and a reader that
\* saw is_initialized() = true and then read storage_ read the non-null block
\* reserved by that initialize().
C21_FlagImpliesStorage ==
    /\ initialized_ => storage_ # 0
    /\ \A t \in 1 .. NReaders :
          (conc.readers[t].flag /\ conc.readers[t].pc = "call")
          => /\ conc.readers[t].seen # 0
             /\ conc.readers[t].seen = nblocks

\* after a successful initialize() one reader has seen the flag true and read
\* the block, another has seen the flag true and not read yet, a third has
\* not seen the flag true
C21_Witness ==
    /\ ret.op = "initialize" /\ ret.code = ok
    /\ \E t, u, v \in 1 .. NReaders :
          /\ conc.readers[t].flag /\ conc.readers[t].pc = "call"
          /\ conc.readers[t].seen = storage_
          /\ conc.readers[u].pc = "use"
          /\ ~conc.readers[v].flag

\* ------------------------------------------------------------------------
\* Properties of the bucket (checked under BucketSpec)
\* ------------------------------------------------------------------------
\* C22: a successful push_back puts its handle at position size() and keeps
\* the handles before it; operator[](idx) with idx < size() returns exactly
\* the handle at position idx and leaves the bucket unchanged; with
\* idx >= size() it fails with out_of_bounds.
C22_BucketIndexedAccess ==
    /\ (ret.op = "push_back" /\ ret.code = ok)
       => /\ Len(bucket) = Len(pre.bucket) + 1
          /\ bucket[ret.arg + 1] = ret.ptrs[1]
          /\ \A k \in 1 .. Len(pre.bucket) : bucket[k] = pre.bucket[k]
    /\ ret.op = "operator[]"
       => /\ bucket = pre.bucket
          /\ IF ret.arg < Len(bucket)
             THEN ret.code = ok /\ ret.ptrs = <<bucket[ret.arg + 1]>>
             ELSE ret.code = out_of_bounds

\* the last handle of a full bucket of several different handles was read
C22_Witness ==
    /\ ret.op = "operator[]" /\ ret.code = ok
    /\ Len(bucket) = N /\ N >= 2
    /\ ret.arg = N - 1
    /\ bucket[1] # bucket[N]

\* ------------------------------------------------------------------------
\* Properties of object lifetime and of the storage block (checked under Spec)
\* ------------------------------------------------------------------------
\* the slot contents that are a constructed TAlloc
Constructed == {"live", "dflt"}

\* C23: every destruction the allocator performs is applied to a slot that
\* holds a constructed T at that moment: deinitialize() on an initialized
\* allocator finds a constructed T in each of the N slots it destroys, and
\* deallocate(h) of an outstanding handle finds one in the slot of h.
C23_DestroyOnlyConstructed ==
    /\ (ret.op = "deinitialize" /\ pre.initialized_)
       => \A i \in 0 .. N - 1 : pre.mem[i] \in Constructed
    /\ (OnInitialized("deallocate") /\ BagIn(ret.ptrs[1], pre.handles)
           /\ ret.ptrs[1][1] = storage_)
       => pre.mem[ret.ptrs[1][2]] \in Constructed

\* the blocks std::aligned_alloc has returned
ReservedBlocks == 1 .. nblocks

\* the blocks passed to std::free: the one storage_ points to, once the
\* destructor has run
ReleasedBlocks == IF pc = "destroyed" THEN {storage_} \ {0} ELSE {}

\* C24: every block reserved by a successful initialize() is released exactly
\* once: the allocator never holds more than one reserved block, and after
\* its destruction no reserved block is left unreleased.
C24_BlocksReleasedOnce ==
    /\ Cardinality(ReservedBlocks \ ReleasedBlocks) <= 1
    /\ pc = "destroyed" => ReservedBlocks \ ReleasedBlocks = {}

DeallocatedFreshBucket ==
    /\ ret.op = "deallocate_bucket"
    /\ pre.initialized_
    /\ \A k \in 1 .. Len(ret.ptrs) :
          /\ BagIn(ret.ptrs[k], pre.handles)
          /\ ret.ptrs[k][1] = storage_
          /\ pre.mem[ret.ptrs[k][2]] = "live"

\* C26: deallocate(bucket) deallocates the handles in insertion order and
\* stops at the first failing deallocate, returning that error without
\* touching later handles; when none fails every handle is released, so
\* status() is back to its value before the allocate_bucket().
C26_BucketDeallocatedInOrder ==
    DeallocatedFreshBucket
    => \/ /\ ret.code = ok
          /\ \A k \in 1 .. Len(ret.ptrs) : ~is_in_use(registry_, ret.ptrs[k][2])
          /\ status(registry_, N).used = status(pre.registry_, N).used - Len(ret.ptrs)
       \/ /\ ret.code = exception_caught_in_dctor
          /\ \E p \in 1 .. Len(ret.ptrs) :
                /\ \A k \in 1 .. p - 1 : ~is_in_use(registry_, ret.ptrs[k][2])
                /\ \A k \in p .. Len(ret.ptrs) :
                      is_in_use(registry_, ret.ptrs[k][2])
                /\ \A k \in p + 1 .. Len(ret.ptrs) :
                      mem[ret.ptrs[k][2]] = pre.mem[ret.ptrs[k][2]]

\* ------------------------------------------------------------------------
\* Properties of two writers on one registry (checked under RaceSpec)
\* ------------------------------------------------------------------------
AllReturned == \A t \in Writers : conc.writers[t].pc = "idle"

\* no index is held by both threads and the used-count is the number of set bits
RegistryConsistent ==
    /\ conc.writers[1].holds \cap conc.writers[2].holds = {}
    /\ registry_.in_use_ = Cardinality(SetBits(registry_, N))

\* two overlapping fetch() calls have both returned index 0, and the
\* used-count is 2 with one bit set
TwoFetchesHoldSameIndex ==
    /\ conc.overlap /\ AllReturned
    /\ 0 \in conc.writers[1].holds \cap conc.writers[2].holds
    /\ registry_.in_use_ # Cardinality(SetBits(registry_, N))

\* when the calls of the two threads have never overlapped and none of them
\* was reset(), the registry is consistent after every call
SerializedFetchReleaseConsistent ==
    (~conc.overlap /\ AllReturned
        /\ \A t \in Writers : conc.writers[t].resets = 0)
    => RegistryConsistent

\* C27: without serialization two fetch() calls can end holding the same
\* index, or the used-count differ from the number of set bits
\* (TwoFetchesHoldSameIndex is reachable); when the calls of the two threads
\* have never overlapped (all mutating calls serialized), after every call no
\* index is held by both threads and the used-count equals the number of set
\* bits (stated for the capacities at which reset() writes inside data_ only).
C27_SerializedWritersConsistent ==
    (~conc.overlap /\ AllReturned /\ N <= data_size_(N)) => RegistryConsistent

====
